---- MODULE Spec2Model ----
(***************************************************************************)
(* Review ledger of the marketplace application: the two MongoDB           *)
(* collections `items` and `users`, the denormalised review copies they    *)
(* embed, and the request handlers that write them                         *)
(*   POST   /api/reviews            (Submit)                               *)
(*   PUT    /api/reviews/[id]       (Update)                               *)
(*   DELETE /api/reviews/[id]       (Delete)                               *)
(*   DELETE /api/items/[id]         (item deletion cascade)                *)
(*   DELETE /api/users/[username]   (user deletion cascade)                *)
(* Every `await db...` call of a handler is one atomic step (MongoDB       *)
(* applies one updateOne / findOne / deleteOne to one document             *)
(* atomically); the code between two calls only touches the handler's      *)
(* locals and belongs to the step of the call that precedes it.            *)
(*                                                                         *)
(* Numbers: a stored `rating` / `averageRating` is a float with one        *)
(* decimal; the model keeps it in tenths (6.5 is 65).  A review's rating   *)
(* is a JSON value: a number or a string (the handlers accept both, the    *)
(* range checks coerce with < and >).                                      *)
(* Left out: itemName and createdAt of a review entry (never read by a     *)
(* handler).  Of the fields of an item / user that are not review fields   *)
(* the model keeps the item's itemType and name and the user's isAdmin.    *)
(***************************************************************************)
EXTENDS Integers, Sequences, FiniteSets, TLC

\* ------------------------------------------------------------------ bounds
\* number of review ids (new ObjectId()) the model lets Submit mint
MaxMint == 2
\* longest review list an item is created with
MaxListLen == 3

\* ------------------------------------------------------------- the inputs
Users == {"u1", "u2"}
Items == {"i1", "i2"}
Procs == {1, 2}

Num(n) == [t |-> "number", v |-> n]
Str(n) == [t |-> "string", v |-> n]

\* request-body ratings: the JSON number 8 and the JSON string "7"
RatingInputs == {Num(8), Str(7)}
\* the body field is absent (undefined)
Absent == "<absent>"
SubmitComments == {Absent, "great"}
UpdateComments == {Absent, "great"}
NoRating == [t |-> "undefined", v |-> 0]
UpdateRatings == RatingInputs \cup {NoRating}
\* the two versions of a cascade handler file in the repository
Copies == {1, 2}

\* getServerSession found no session
NoSession == "<none>"
\* an id string that ObjectId.isValid rejects
MalformedId == "not-an-object-id"
\* what a request may carry where the handlers draw from every case of
\* their checks: any session, a missing or malformed itemId, a missing
\* username, a rating that is missing, 0, or above 10
AnySession == Users \cup {NoSession}
AnyItemId == {"i1", MalformedId, Absent}
AnyUsername == Users \cup {Absent}
AnySubmitRating == {Num(8), Num(0), Num(11), NoRating}
AnyUpdateRating == {Num(8), Num(0), Str(11), NoRating}

MissingFieldNever(x) == FALSE
\* !reviewData[field] for a string field
MissingField(x) == x = Absent
\* !reviewData.rating: undefined and the number 0 are falsy, a non-empty
\* string is not
MissingRating(rating) ==
    rating.t = "undefined" \/ (rating.t = "number" /\ rating.v = 0)
OutOfRangeNever(rating) == FALSE
\* rating < 1 || rating > 10, a numeric string compared as its number
OutOfRange(rating) == rating.v < 1 \/ rating.v > 10
SessionMismatchNever(username, session) == FALSE
\* reviewData.username !== session.user.name
SessionMismatch(username, session) == username # session
\* ObjectId.isValid(itemId)
ValidObjectId(id) == id # MalformedId

\* ------------------------------------------------------- sequence helpers
RECURSIVE SelectOut(_, _)
\* the entries of s that are not in the set drop, in order ($pull)
SelectOut(s, drop) ==
    IF s = << >> THEN << >>
    ELSE IF Head(s) \in drop THEN SelectOut(Tail(s), drop)
         ELSE << Head(s) >> \o SelectOut(Tail(s), drop)

Range(s) == { s[k] : k \in 1..Len(s) }

\* index of the first entry of s satisfying the id / key test, 0 if none
FirstIdx(s, S) ==
    IF \E k \in 1..Len(s) : s[k] \in S
    THEN CHOOSE k \in 1..Len(s) : s[k] \in S /\ \A j \in 1..(k-1) : s[j] \notin S
    ELSE 0

\* ------------------------------------------------ rating arithmetic (JS)
\* (x / n).toFixed(1) read back by parseFloat, in tenths; x, n > 0.
\* toFixed rounds to the nearest tenth, the larger one on a tie.
ToFixed1(x, n) == (20 * x + n) \div (2 * n)

\* String(r) has one or two characters for the ratings 1..10
Pow10Len(v) == IF v >= 10 THEN 100 ELSE 10

\* total + review.rating in JavaScript: number + number adds, anything
\* with a string concatenates the decimal texts.  A string total is kept
\* as the number its text converts to (leading zeros do not matter).
JsPlus(total, r) ==
    IF total.t = "number" /\ r.t = "number"
    THEN [t |-> "number", v |-> total.v + r.v]
    ELSE [t |-> "string", v |-> total.v * Pow10Len(r.v) + r.v]

RECURSIVE ReduceSum(_, _)
\* reviews.reduce((total, review) => total + review.rating, 0)
ReduceSum(total, reviews) ==
    IF reviews = << >> THEN total
    ELSE ReduceSum(JsPlus(total, Head(reviews).rating), Tail(reviews))

\* the helper of reviews/[id]/route.ts, of the second items/[id] copy and
\* of the first users/[username] copy: no filtering, plain reduce
AverageReduce(reviews) ==
    IF Len(reviews) > 0
    THEN ToFixed1(ReduceSum(Num(0), reviews).v, Len(reviews))
    ELSE 0

\* typeof rating === 'number' && !isNaN(rating), after parseFloat of a
\* string: a number, or a text that parses to one
ValidRating(rating) == rating.t \in {"number", "string"}

RECURSIVE ValidSum(_)
\* validRatingsSum: numbers as they are, strings through parseFloat
ValidSum(reviews) ==
    IF reviews = << >> THEN 0
    ELSE (IF ValidRating(Head(reviews).rating) THEN Head(reviews).rating.v ELSE 0)
         + ValidSum(Tail(reviews))

ValidCountAll(reviews) == Len(reviews)
\* validRatingsCount: every number and every numeric string counts
ValidCount(reviews) ==
    Cardinality({ k \in 1..Len(reviews) : ValidRating(reviews[k].rating) })

\* the helper of reviews/route.ts, of the first items/[id] copy and of
\* the second users/[username] copy: filters, parses strings
AverageFilter(reviews) ==
    IF Len(reviews) > 0 /\ ValidCount(reviews) > 0
    THEN ToFixed1(ValidSum(reviews), ValidCount(reviews))
    ELSE 0

Average(kind, reviews) ==
    IF kind = "filter" THEN AverageFilter(reviews) ELSE AverageReduce(reviews)

\* ------------------------------------------------------------------ state
VARIABLES
    items,    \* collection `items`: item id -> [reviews, reviewCount, rating]
    users,    \* collection `users`: username -> [itemReviews, reviewCount, averageRating]
    nextId,   \* the next review id new ObjectId() returns
    req,      \* per request slot: the handler's position and locals
    pre,      \* per request slot: the collections when the request arrived
    wlog      \* per request slot: the writes the request has made, in order

vars == << items, users, nextId, req, pre, wlog >>

\* ------------------------------------------------------ documents, locals
\* a freshly created item / user (POST /api/items, POST /api/users)
ItemDoc0 ==
    [reviews |-> << >>, reviewCount |-> 0, rating |-> 0,
     itemType |-> "vinyl", name |-> "record"]
\* `copies` is the number of documents of the collection that carry this
\* username (the collection has no unique index)
UserDoc0 ==
    [itemReviews |-> << >>, reviewCount |-> 0, averageRating |-> 0, copies |-> 1,
     isAdmin |-> FALSE]

\* getToken found no token
NoToken == "<no token>"

\* a field of a JSON body: << >> when the body does not have it, else << value >>
NotGiven == << >>
Given(x) == << x >>

\* a PUT body without fields
NoBody ==
    [itemType |-> NotGiven, name |-> NotGiven, reviews |-> NotGiven,
     rating |-> NotGiven, username |-> NotGiven, isAdmin |-> NotGiven,
     itemReviews |-> NotGiven, averageRating |-> NotGiven, reviewCount |-> NotGiven]

IdleReq ==
    [op |-> "none", pc |-> "idle", session |-> NoSession, body |-> NoBody,
     token |-> NoToken, method |-> "", path |-> << >>, adminKey |-> Absent,
     itemId |-> "", username |-> "", password |-> Absent,
     rating |-> NoRating, comment |-> Absent, rid |-> 0,
     existing |-> FALSE, old |-> 0, todo |-> << >>, affected |-> << >>,
     aggQ |-> << >>, aggList |-> << >>, helper |-> "filter",
     mod |-> 0, resp |-> 0]

Snapshot == [items |-> items, users |-> users]

\* what `pre` holds while no request is in the slot
NoSnapshot ==
    [items |-> [i \in Items |-> ItemDoc0], users |-> [u \in Users |-> UserDoc0]]

\* a request arrives in a free slot p
Arrive(p, r) ==
    /\ req[p].pc = "idle"
    /\ req' = [req EXCEPT ![p] = r]
    /\ pre' = [pre EXCEPT ![p] = Snapshot]
    /\ wlog' = [wlog EXCEPT ![p] = << >>]

\* the handler returns: its locals die, the request's parameters and the
\* response stay visible
Return(r, status) ==
    [r EXCEPT !.pc = "done", !.resp = status, !.todo = << >>,
              !.aggQ = << >>, !.aggList = << >>]

Goto(p, r) == req' = [req EXCEPT ![p] = r]

\* one collection call of request p, recorded in the order it was made
Wrote(p, kind, coll, key, hit) ==
    wlog' = [wlog EXCEPT ![p] =
                Append(@, [k |-> kind, coll |-> coll, key |-> key, hit |-> hit])]

ItemTarget(i) == [coll |-> "items", key |-> i]
UserTarget(u) == [coll |-> "users", key |-> u]

\* ------------------------------------------------- update operators ($..)
\* $inc: { reviewCount: 1 }
IncCount(n) == n + 1

DecCountSkip(n) == n
\* $inc: { reviewCount: -1 }
DecCount(n) == n - 1

PullIdKeep(list, id) == list
\* $pull: { reviews: { _id: id } }
PullId(list, id) == SelectOut(list, { e \in Range(list) : e.id = id })
PullItemIdKeep(list, itemId) == list
\* $pull: { itemReviews: { itemId: id } }
PullItemId(list, itemId) == SelectOut(list, { e \in Range(list) : e.itemId = itemId })
PullUsernameKeep(list, username) == list
\* $pull: { reviews: { username: username } }
PullUsername(list, username) ==
    SelectOut(list, { e \in Range(list) : e.username = username })

SetFieldsRatingOnly(e, rating, comment) ==
    [e EXCEPT !.rating = IF rating = NoRating THEN @ ELSE rating]
\* the fields a PUT body sets: updateFields
SetFields(e, rating, comment) ==
    [e EXCEPT !.rating = IF rating = NoRating THEN @ ELSE rating,
              !.comment = IF comment = Absent THEN @ ELSE comment]

\* $set: { "<list>.$.<field>": value } with the filter "<list>._id": id:
\* the first entry with that id gets the fields
SetPositional(list, id, rating, comment) ==
    LET k == FirstIdx(list, { e \in Range(list) : e.id = id })
    IN  IF k = 0 THEN list
        ELSE [list EXCEPT ![k] = SetFields(@, rating, comment)]

CommentOrEmptyRaw(comment) == comment
\* reviewData.comment || ""
CommentOrEmpty(comment) == IF comment = Absent THEN "" ELSE comment

\* the status of the handler's final, successful response
SuccessStatus(op) == IF op = "submit" THEN 201 ELSE 200

\* what is left to do once a rating helper has returned
AfterAgg(r) ==
    IF r.aggQ = << >> THEN Return(r, SuccessStatus(r.op))
    ELSE [r EXCEPT !.pc = "agg_read", !.aggList = << >>]

\* the handler goes on to call the rating helpers for `targets`, in order
StartAgg(r, helper, targets) ==
    AfterAgg([r EXCEPT !.helper = helper, !.aggQ = targets])

\* ------------------------------------------------------------------- Init
Init ==
    /\ items = [i \in Items |-> ItemDoc0]
    /\ users = [u \in Users |-> UserDoc0]
    /\ nextId = 1
    /\ req = [p \in Procs |-> IdleReq]
    /\ pre = [p \in Procs |-> NoSnapshot]
    /\ wlog = [p \in Procs |-> << >>]

\* Submit requests in flight that have not minted their review id yet
Unminted == { q \in Procs : req[q].pc \in {"s_findUser", "s_findExisting"} }

\* ---------------------------------------------- POST /api/reviews (Submit)
\* the session check, the required fields, the username check, the rating
\* range and the id format, in the handler's order; then
\* findOne({ _id: itemId })
SubmitRequest(p, session, itemId, username, rating, comment) ==
    /\ nextId + Cardinality(Unminted) <= MaxMint
    /\ LET r == [IdleReq EXCEPT !.op = "submit", !.session = session,
                                !.itemId = itemId, !.username = username,
                                !.rating = rating, !.comment = comment]
       IN  Arrive(p,
             IF session = NoSession THEN Return(r, 401)
             ELSE IF MissingField(itemId) \/ MissingField(username)
                     \/ MissingRating(rating) THEN Return(r, 400)
             ELSE IF SessionMismatch(username, session) THEN Return(r, 403)
             ELSE IF OutOfRange(rating) THEN Return(r, 400)
             ELSE IF ~ValidObjectId(itemId) THEN Return(r, 400)
             ELSE IF itemId \in DOMAIN items THEN [r EXCEPT !.pc = "s_findUser"]
             ELSE Return(r, 404))
    /\ UNCHANGED << items, users, nextId >>

\* a Submit of a signed-in user for their own username
SubmitBegin(p, itemId, username, rating, comment) ==
    SubmitRequest(p, username, itemId, username, rating, comment)

\* findOne({ username })
SubmitFindUser(p) ==
    /\ req[p].pc = "s_findUser"
    /\ Goto(p, IF req[p].username \in DOMAIN users
               THEN [req[p] EXCEPT !.pc = "s_findExisting"]
               ELSE Return(req[p], 404))
    /\ UNCHANGED << items, users, nextId, pre, wlog >>

\* findOne({ _id: itemId, "reviews.username": username }); then the new
\* review id is minted and existingReview looked up in the document read
SubmitFindExisting(p) ==
    /\ req[p].pc = "s_findExisting"
    /\ LET r == req[p]
           found == /\ r.itemId \in DOMAIN items
                    /\ \E e \in Range(items[r.itemId].reviews) : e.username = r.username
           list == items[r.itemId].reviews
           k == FirstIdx(list, { e \in Range(list) : e.username = r.username })
       IN  Goto(p, IF found
                   THEN [r EXCEPT !.rid = nextId, !.existing = TRUE,
                                  !.old = list[k].id, !.pc = "s_pullItem"]
                   ELSE [r EXCEPT !.rid = nextId, !.existing = FALSE,
                                  !.pc = "s_incItem"])
    /\ nextId' = nextId + 1
    /\ UNCHANGED << items, users, pre, wlog >>

\* updateOne({ _id: itemId }, { $pull: { reviews: { _id: existingReviewId } } })
SubmitPullItem(p) ==
    /\ req[p].pc = "s_pullItem"
    /\ LET r == req[p] IN
       /\ items' = IF r.itemId \in DOMAIN items
                   THEN [items EXCEPT ![r.itemId].reviews = PullId(@, r.old)]
                   ELSE items
       /\ Wrote(p, "pull", "items", r.itemId, r.itemId \in DOMAIN items)
       /\ Goto(p, [r EXCEPT !.pc = "s_pullUser"])
    /\ UNCHANGED << users, nextId, pre >>

\* updateOne({ username }, { $pull: { itemReviews: { _id: existingReviewId } } })
SubmitPullUser(p) ==
    /\ req[p].pc = "s_pullUser"
    /\ LET r == req[p] IN
       /\ users' = IF r.username \in DOMAIN users
                   THEN [users EXCEPT ![r.username].itemReviews = PullId(@, r.old)]
                   ELSE users
       /\ Wrote(p, "pull", "users", r.username, r.username \in DOMAIN users)
       /\ Goto(p, [r EXCEPT !.pc = "s_pushItem"])
    /\ UNCHANGED << items, nextId, pre >>

\* updateOne({ _id: itemId }, { $inc: { reviewCount: 1 } })
SubmitIncItem(p) ==
    /\ req[p].pc = "s_incItem"
    /\ LET r == req[p] IN
       /\ items' = IF r.itemId \in DOMAIN items
                   THEN [items EXCEPT ![r.itemId].reviewCount = IncCount(@)]
                   ELSE items
       /\ Wrote(p, "inc", "items", r.itemId, r.itemId \in DOMAIN items)
       /\ Goto(p, [r EXCEPT !.pc = "s_incUser"])
    /\ UNCHANGED << users, nextId, pre >>

\* updateOne({ username }, { $inc: { reviewCount: 1 } })
SubmitIncUser(p) ==
    /\ req[p].pc = "s_incUser"
    /\ LET r == req[p] IN
       /\ users' = IF r.username \in DOMAIN users
                   THEN [users EXCEPT ![r.username].reviewCount = IncCount(@)]
                   ELSE users
       /\ Wrote(p, "inc", "users", r.username, r.username \in DOMAIN users)
       /\ Goto(p, [r EXCEPT !.pc = "s_pushItem"])
    /\ UNCHANGED << items, nextId, pre >>

\* itemReview of the handler
ItemReview(r) ==
    [id |-> r.rid, username |-> r.username, rating |-> r.rating,
     comment |-> CommentOrEmpty(r.comment)]

\* userItemReview of the handler
UserItemReview(r) ==
    [id |-> r.rid, itemId |-> r.itemId, rating |-> r.rating,
     comment |-> CommentOrEmpty(r.comment)]

\* updateOne({ _id: itemId }, { $push: { reviews: itemReview } })
SubmitPushItem(p) ==
    /\ req[p].pc = "s_pushItem"
    /\ LET r == req[p] IN
       /\ items' = IF r.itemId \in DOMAIN items
                   THEN [items EXCEPT ![r.itemId].reviews = Append(@, ItemReview(r))]
                   ELSE items
       /\ Wrote(p, "push", "items", r.itemId, r.itemId \in DOMAIN items)
       /\ Goto(p, [r EXCEPT !.pc = "s_pushUser"])
    /\ UNCHANGED << users, nextId, pre >>

SubmitTargetsItemTwice(r) ==
    << ItemTarget(r.itemId), UserTarget(r.username), ItemTarget(r.itemId) >>
\* await updateItemRating(db, reviewData.itemId);
\* await updateUserRating(db, reviewData.username);
SubmitTargets(r) == << ItemTarget(r.itemId), UserTarget(r.username) >>

\* updateOne({ username }, { $push: { itemReviews: userItemReview } });
\* next come updateItemRating(db, itemId) and updateUserRating(db, username)
SubmitPushUser(p) ==
    /\ req[p].pc = "s_pushUser"
    /\ LET r == req[p] IN
       /\ users' = IF r.username \in DOMAIN users
                   THEN [users EXCEPT ![r.username].itemReviews =
                                          Append(@, UserItemReview(r))]
                   ELSE users
       /\ Wrote(p, "push", "users", r.username, r.username \in DOMAIN users)
       /\ Goto(p, StartAgg(r, "filter", SubmitTargets(r)))
    /\ UNCHANGED << items, nextId, pre >>

\* ------------------------------- updateItemRating / updateUserRating
\* the helper's findOne: the list is read, or the helper returns at once
\* when the document is gone
AggRead(p) ==
    /\ req[p].pc = "agg_read"
    /\ LET r == req[p]
           t == Head(r.aggQ)
           there == IF t.coll = "items" THEN t.key \in DOMAIN items
                                        ELSE t.key \in DOMAIN users
           list == IF t.coll = "items" THEN items[t.key].reviews
                                       ELSE users[t.key].itemReviews
       IN  Goto(p, IF there
                   THEN [r EXCEPT !.pc = "agg_write", !.aggList = list]
                   ELSE AfterAgg([r EXCEPT !.aggQ = Tail(@)]))
    /\ UNCHANGED << items, users, nextId, pre, wlog >>

\* $set: { rating: averageRating }
SetRating(doc, avg) == [doc EXCEPT !.rating = avg]
SetAverageRatingAndCount(doc, avg) ==
    [doc EXCEPT !.averageRating = avg, !.reviewCount = Len(doc.itemReviews)]
\* $set: { averageRating }
SetAverageRating(doc, avg) == [doc EXCEPT !.averageRating = avg]

\* the helper's updateOne({ ... }, { $set: { rating | averageRating } })
\* with the average of the list it read
AggWrite(p) ==
    /\ req[p].pc = "agg_write"
    /\ LET r == req[p]
           t == Head(r.aggQ)
           avg == Average(r.helper, r.aggList)
       IN  /\ IF t.coll = "items"
              THEN /\ items' = IF t.key \in DOMAIN items
                               THEN [items EXCEPT ![t.key] = SetRating(@, avg)]
                               ELSE items
                   /\ Wrote(p, "rating", "items", t.key, t.key \in DOMAIN items)
                   /\ UNCHANGED users
              ELSE /\ users' = IF t.key \in DOMAIN users
                               THEN [users EXCEPT ![t.key] = SetAverageRating(@, avg)]
                               ELSE users
                   /\ Wrote(p, "rating", "users", t.key, t.key \in DOMAIN users)
                   /\ UNCHANGED items
           /\ Goto(p, AfterAgg([r EXCEPT !.aggQ = Tail(@)]))
    /\ UNCHANGED << nextId, pre >>

\* the item whose reviews hold the id: findOne({ "reviews._id": id })
HoldersOf(id) ==
    { i \in DOMAIN items : \E e \in Range(items[i].reviews) : e.id = id }

\* --------------------------------------- DELETE /api/reviews/[id] (Delete)
\* findOne({ "reviews._id": id }) and the lookup of the review in it
DeleteBegin(p, id) ==
    /\ LET r == [IdleReq EXCEPT !.op = "delete", !.rid = id] IN
       IF HoldersOf(id) = {}
       THEN Arrive(p, Return(r, 404))
       ELSE \E i \in HoldersOf(id) :
              LET list == items[i].reviews
                  k == FirstIdx(list, { e \in Range(list) : e.id = id })
              IN  Arrive(p, [r EXCEPT !.itemId = i, !.username = list[k].username,
                                      !.pc = "d_pullItem"])
    /\ UNCHANGED << items, users, nextId >>

\* updateOne({ _id: itemId }, { $pull: { reviews: { _id: id } }, $inc: { reviewCount: -1 } })
DeletePullItem(p) ==
    /\ req[p].pc = "d_pullItem"
    /\ LET r == req[p]
           hit == r.itemId \in DOMAIN items
       IN  /\ items' = IF hit
                       THEN [items EXCEPT ![r.itemId].reviews = PullId(@, r.rid),
                                          ![r.itemId].reviewCount = DecCount(@)]
                       ELSE items
           /\ Wrote(p, "pull_inc", "items", r.itemId, hit)
           /\ Goto(p, [r EXCEPT !.pc = "d_pullUser", !.mod = IF hit THEN 1 ELSE 0])
    /\ UNCHANGED << users, nextId, pre >>

\* updateOne({ username }, { $pull: { itemReviews: { _id: id } }, $inc: { reviewCount: -1 } });
\* 400 when neither update modified a document, else the two helpers
DeletePullUser(p) ==
    /\ req[p].pc = "d_pullUser"
    /\ LET r == req[p]
           hit == r.username \in DOMAIN users
       IN  /\ users' = IF hit
                       THEN [users EXCEPT ![r.username].itemReviews = PullId(@, r.rid),
                                          ![r.username].reviewCount = DecCount(@)]
                       ELSE users
           /\ Wrote(p, "pull_inc", "users", r.username, hit)
           /\ Goto(p, IF r.mod = 0 /\ ~hit
                      THEN Return(r, 400)
                      ELSE StartAgg(r, "reduce",
                                    << ItemTarget(r.itemId), UserTarget(r.username) >>))
    /\ UNCHANGED << items, nextId, pre >>

\* ------------------------------------------ PUT /api/reviews/[id] (Update)
\* the body checks (400 for a rating out of range, 400 when neither field
\* is given), then
\* findOne({ "reviews._id": id }) and the lookup of the review in it
UpdateBegin(p, id, rating, comment) ==
    /\ LET r == [IdleReq EXCEPT !.op = "update", !.rid = id, !.rating = rating,
                                !.comment = comment] IN
       IF rating # NoRating /\ OutOfRange(rating)
       THEN Arrive(p, Return(r, 400))
       ELSE IF rating = NoRating /\ comment = Absent
       THEN Arrive(p, Return(r, 400))
       ELSE IF HoldersOf(id) = {}
       THEN Arrive(p, Return(r, 404))
       ELSE \E i \in HoldersOf(id) :
              LET list == items[i].reviews
                  k == FirstIdx(list, { e \in Range(list) : e.id = id })
              IN  Arrive(p, [r EXCEPT !.itemId = i, !.username = list[k].username,
                                      !.pc = "u_setItem"])
    /\ UNCHANGED << items, users, nextId >>

\* updateOne({ _id: itemId, "reviews._id": id }, { $set: { "reviews.$.<f>": v } })
UpdateSetItem(p) ==
    /\ req[p].pc = "u_setItem"
    /\ LET r == req[p]
           hit == /\ r.itemId \in DOMAIN items
                  /\ \E e \in Range(items[r.itemId].reviews) : e.id = r.rid
           new == SetPositional(items[r.itemId].reviews, r.rid, r.rating, r.comment)
       IN  /\ items' = IF hit THEN [items EXCEPT ![r.itemId].reviews = new] ELSE items
           /\ Wrote(p, "set", "items", r.itemId, hit)
           /\ Goto(p, [r EXCEPT !.pc = "u_setUser",
                                !.mod = IF hit /\ new # items[r.itemId].reviews
                                        THEN 1 ELSE 0])
    /\ UNCHANGED << users, nextId, pre >>

\* updateOne({ username, "itemReviews._id": id }, { $set: { "itemReviews.$.<f>": v } });
\* 400 when neither update modified a document; the helpers only when the
\* body has a rating
UpdateSetUser(p) ==
    /\ req[p].pc = "u_setUser"
    /\ LET r == req[p]
           hit == /\ r.username \in DOMAIN users
                  /\ \E e \in Range(users[r.username].itemReviews) : e.id = r.rid
           new == SetPositional(users[r.username].itemReviews, r.rid, r.rating, r.comment)
           modified == hit /\ new # users[r.username].itemReviews
       IN  /\ users' = IF hit THEN [users EXCEPT ![r.username].itemReviews = new]
                       ELSE users
           /\ Wrote(p, "set", "users", r.username, hit)
           /\ Goto(p, IF r.mod = 0 /\ ~modified
                      THEN Return(r, 400)
                      ELSE IF r.rating # NoRating
                      THEN StartAgg(r, "reduce",
                                    << ItemTarget(r.itemId), UserTarget(r.username) >>)
                      ELSE Return(r, 200))
    /\ UNCHANGED << items, nextId, pre >>

\* usersToUpdate.add / itemsToUpdate.add: a Set keeps insertion order
SetAdd(seq, x) == IF x \in Range(seq) THEN seq ELSE Append(seq, x)

\* the rating helper each version of a cascade handler file defines
ItemDeleteHelper(copy) == IF copy = 1 THEN "filter" ELSE "reduce"
UserDeleteHelper(copy) == IF copy = 1 THEN "reduce" ELSE "filter"

\* ------------------------------------ DELETE /api/items/[id] (cascade)
\* findOne({ _id: id }): 404, or the item's reviews are the work list
DeleteItemFind(r0, itemId, copy) ==
    LET r == [r0 EXCEPT !.op = "deleteItem", !.itemId = itemId,
                        !.helper = ItemDeleteHelper(copy)]
    IN  IF itemId \notin DOMAIN items THEN Return(r, 404)
        ELSE [r EXCEPT !.todo = items[itemId].reviews,
                       !.pc = IF items[itemId].reviews = << >>
                              THEN "di_remove" ELSE "di_pull"]

\* a deletion of an item arrives in slot p
DeleteItemBegin(p, itemId, copy) ==
    /\ Arrive(p, DeleteItemFind(IdleReq, itemId, copy))
    /\ UNCHANGED << items, users, nextId >>

\* one turn of the loop over existingItem.reviews:
\* updateOne({ username }, { $pull: { itemReviews: { itemId: id } }, $inc: { reviewCount: -1 } })
DeleteItemPull(p) ==
    /\ req[p].pc = "di_pull"
    /\ LET r == req[p]
           u == Head(r.todo).username
           hit == u \in DOMAIN users
       IN  /\ users' = IF hit
                       THEN [users EXCEPT ![u].itemReviews = PullItemId(@, r.itemId),
                                          ![u].reviewCount = DecCount(@)]
                       ELSE users
           /\ Wrote(p, "pull_inc", "users", u, hit)
           /\ Goto(p, [r EXCEPT !.todo = Tail(@), !.affected = SetAdd(@, u),
                                !.pc = IF Len(r.todo) = 1 THEN "di_remove" ELSE "di_pull"])
    /\ UNCHANGED << items, nextId, pre >>

UserTargetsNone(seq) == << >>
RECURSIVE UserTargets(_)
\* for (const username of Array.from(usersToUpdate)) updateUserRating(db, username)
UserTargets(seq) ==
    IF seq = << >> THEN << >> ELSE << UserTarget(Head(seq)) >> \o UserTargets(Tail(seq))

ItemTargetsNone(seq) == << >>
RECURSIVE ItemTargets(_)
\* for (const itemId of Array.from(itemsToUpdate)) updateItemRating(db, itemId)
ItemTargets(seq) ==
    IF seq = << >> THEN << >> ELSE << ItemTarget(Head(seq)) >> \o ItemTargets(Tail(seq))

NothingDeletedOk(r) == Return(r, 200)
\* if (result.deletedCount === 0) return ... { status: 400 }
NothingDeleted(r) == Return(r, 400)

\* deleteOne({ _id: id }): 400 when nothing was deleted, else
\* updateUserRating for every user of usersToUpdate
DeleteItemRemove(p) ==
    /\ req[p].pc = "di_remove"
    /\ LET r == req[p]
           hit == r.itemId \in DOMAIN items
       IN  /\ items' = [i \in DOMAIN items \ {r.itemId} |-> items[i]]
           /\ Wrote(p, "deleteOne", "items", r.itemId, hit)
           /\ Goto(p, IF ~hit THEN NothingDeleted(r)
                      ELSE StartAgg(r, r.helper, UserTargets(r.affected)))
    /\ UNCHANGED << users, nextId, pre >>

\* -------------------------------- DELETE /api/users/[username] (cascade)
\* findOne({ username }): 404, or the user's itemReviews are the work list
DeleteUserFind(r0, username, copy) ==
    LET r == [r0 EXCEPT !.op = "deleteUser", !.username = username,
                        !.helper = UserDeleteHelper(copy)]
    IN  IF username \notin DOMAIN users THEN Return(r, 404)
        ELSE [r EXCEPT !.todo = users[username].itemReviews,
                       !.pc = IF users[username].itemReviews = << >>
                              THEN "du_remove" ELSE "du_pull"]

\* a deletion of a user arrives in slot p
DeleteUserBegin(p, username, copy) ==
    /\ Arrive(p, DeleteUserFind(IdleReq, username, copy))
    /\ UNCHANGED << items, users, nextId >>

\* one turn of the loop over user.itemReviews:
\* updateOne({ _id: review.itemId }, { $pull: { reviews: { username } }, $inc: { reviewCount: -1 } })
DeleteUserPull(p) ==
    /\ req[p].pc = "du_pull"
    /\ LET r == req[p]
           i == Head(r.todo).itemId
           hit == i \in DOMAIN items
       IN  /\ items' = IF hit
                       THEN [items EXCEPT ![i].reviews = PullUsername(@, r.username),
                                          ![i].reviewCount = DecCount(@)]
                       ELSE items
           /\ Wrote(p, "pull_inc", "items", i, hit)
           /\ Goto(p, [r EXCEPT !.todo = Tail(@), !.affected = SetAdd(@, i),
                                !.pc = IF Len(r.todo) = 1 THEN "du_remove" ELSE "du_pull"])
    /\ UNCHANGED << users, nextId, pre >>

\* deleteOne({ username }): 500 when nothing was deleted, else
\* updateItemRating for every item of itemsToUpdate
DeleteUserRemove(p) ==
    /\ req[p].pc = "du_remove"
    /\ LET r == req[p]
           hit == r.username \in DOMAIN users
       IN  /\ users' = [u \in DOMAIN users \ {r.username} |-> users[u]]
           /\ Wrote(p, "deleteOne", "users", r.username, hit)
           /\ Goto(p, IF ~hit THEN Return(r, 500)
                      ELSE StartAgg(r, r.helper, ItemTargets(r.affected)))
    /\ UNCHANGED << items, nextId, pre >>

\* ------------------------------------------------ PUT /api/items/[id]
\* the bodies of the item edits: no field, an itemType (the empty text, or
\* another type) with or without a name, or one of the review fields
ItemBodies ==
    { [NoBody EXCEPT !.itemType = t, !.name = n] :
        t \in {NotGiven, Given(""), Given("gpsWatch")},
        n \in {NotGiven, Given("desk")} }
    \cup { [NoBody EXCEPT !.reviews = Given(<< >>)],
           [NoBody EXCEPT !.rating = Given(99)],
           [NoBody EXCEPT !.reviewCount = Given(5)] }

\* if (value): a field that is given and is not the empty text
Truthy(field) == field # NotGiven /\ field[1] # ""

\* if (updateData.itemType) { delete updateData.itemType; }
DropItemType(b) == IF Truthy(b.itemType) THEN [b EXCEPT !.itemType = NotGiven] ELSE b

\* updateData has no field left
EmptyUpdate(b) == b = NoBody

\* what updateOne answers to { $set: {} }: the server rejects an empty
\* $set (the call throws, the catch block answers 500) or, from version
\* 5.0 on, takes it as an update that changes nothing
EmptySetOutcomes == {"throws", "no-op"}

\* $set: updateData on an item
SetItem(doc, b) ==
    [doc EXCEPT !.itemType = IF b.itemType = NotGiven THEN @ ELSE b.itemType[1],
                !.name = IF b.name = NotGiven THEN @ ELSE b.name[1],
                !.reviews = IF b.reviews = NotGiven THEN @ ELSE b.reviews[1],
                !.rating = IF b.rating = NotGiven THEN @ ELSE b.rating[1],
                !.reviewCount = IF b.reviewCount = NotGiven THEN @ ELSE b.reviewCount[1]]

\* the body is read and itemType dropped from it; findOne({ _id: id }): 404
PutItemBegin(p, id, body) ==
    /\ LET r == [IdleReq EXCEPT !.op = "putItem", !.itemId = id,
                                !.body = DropItemType(body)] IN
       Arrive(p, IF ~ValidObjectId(id) THEN Return([r EXCEPT !.body = NoBody], 400)
                 ELSE IF id \notin DOMAIN items THEN Return(r, 404)
                 ELSE [r EXCEPT !.pc = "pi_set"])
    /\ UNCHANGED << items, users, nextId >>

\* updateOne({ _id: id }, { $set: updateData }): 400 when modifiedCount is
\* 0; then findOne({ _id: id }) for the response
PutItemSet(p) ==
    /\ req[p].pc = "pi_set"
    /\ LET r == req[p]
           hit == r.itemId \in DOMAIN items
           new == SetItem(items[r.itemId], r.body)
       IN  IF EmptyUpdate(r.body)
           THEN /\ \E o \in EmptySetOutcomes :
                      Goto(p, Return(r, IF o = "throws" THEN 500 ELSE 400))
                /\ UNCHANGED << items, wlog >>
           ELSE /\ items' = IF hit THEN [items EXCEPT ![r.itemId] = new] ELSE items
                /\ Wrote(p, "set", "items", r.itemId, hit)
                /\ Goto(p, IF hit /\ new # items[r.itemId]
                           THEN Return(r, 200) ELSE Return(r, 400))
    /\ UNCHANGED << users, nextId, pre >>

\* ------------------------------------------- PUT /api/users/[username]
\* the bodies of the user edits: no field, a username with or without the
\* admin flag, or one of the review fields
UserBodies ==
    { [NoBody EXCEPT !.username = n, !.isAdmin = a] :
        n \in {NotGiven, Given("u1"), Given("u2")},
        a \in {NotGiven, Given(TRUE)} }
    \cup { [NoBody EXCEPT !.itemReviews = Given(<< >>)],
           [NoBody EXCEPT !.averageRating = Given(99)],
           [NoBody EXCEPT !.reviewCount = Given(5)] }

\* delete updateData.username
DropUsername(b) == [b EXCEPT !.username = NotGiven]

\* $set: updateData on a user
SetUser(doc, b) ==
    [doc EXCEPT !.isAdmin = IF b.isAdmin = NotGiven THEN @ ELSE b.isAdmin[1],
                !.itemReviews = IF b.itemReviews = NotGiven THEN @ ELSE b.itemReviews[1],
                !.averageRating =
                    IF b.averageRating = NotGiven THEN @ ELSE b.averageRating[1],
                !.reviewCount = IF b.reviewCount = NotGiven THEN @ ELSE b.reviewCount[1]]

\* 400 when the body names another username; findOne({ username }): 404;
\* then username is dropped from the body
PutUserBegin(p, username, body) ==
    /\ LET r == [IdleReq EXCEPT !.op = "putUser", !.username = username,
                                !.body = body] IN
       Arrive(p, IF Truthy(body.username) /\ body.username[1] # username
                 THEN Return(r, 400)
                 ELSE IF username \notin DOMAIN users THEN Return(r, 404)
                 ELSE [r EXCEPT !.body = DropUsername(body), !.pc = "pu_set"])
    /\ UNCHANGED << items, users, nextId >>

\* updateOne({ username }, { $set: updateData }), then findOne({ username }):
\* 404 when the user is gone, else 200
PutUserSet(p) ==
    /\ req[p].pc = "pu_set"
    /\ LET r == req[p]
           hit == r.username \in DOMAIN users
           after == IF hit THEN Return(r, 200) ELSE Return(r, 404)
       IN  IF EmptyUpdate(r.body)
           THEN /\ \E o \in EmptySetOutcomes :
                      Goto(p, IF o = "throws" THEN Return(r, 500) ELSE after)
                /\ UNCHANGED << users, wlog >>
           ELSE /\ users' = IF hit
                            THEN [users EXCEPT ![r.username] = SetUser(@, r.body)]
                            ELSE users
                /\ Wrote(p, "set", "users", r.username, hit)
                /\ Goto(p, after)
    /\ UNCHANGED << items, nextId, pre >>

\* the response has gone out: the slot is free for the next request
Release(p) ==
    /\ req[p].pc = "done"
    /\ req' = [req EXCEPT ![p] = IdleReq]
    /\ pre' = [pre EXCEPT ![p] = NoSnapshot]
    /\ wlog' = [wlog EXCEPT ![p] = << >>]
    /\ UNCHANGED << items, users, nextId >>

\* ------------------------------------------------------- specifications
\* the steps of a Submit in slot p
SubmitStep(p) ==
    \/ \E i \in Items, u \in Users, rt \in RatingInputs, c \in SubmitComments :
          SubmitBegin(p, i, u, rt, c)
    \/ SubmitFindUser(p)
    \/ SubmitFindExisting(p)
    \/ SubmitPullItem(p)
    \/ SubmitPullUser(p)
    \/ SubmitIncItem(p)
    \/ SubmitIncUser(p)
    \/ SubmitPushItem(p)
    \/ SubmitPushUser(p)

\* the steps of the rating helpers, and the end of a request
HelperStep(p) ==
    \/ AggRead(p)
    \/ AggWrite(p)
    \/ Release(p)

\* the steps of a Delete and of an Update in slot p
ReviewStep(p) ==
    \/ \E id \in 1..MaxMint : DeleteBegin(p, id)
    \/ DeletePullItem(p)
    \/ DeletePullUser(p)
    \/ \E id \in 1..MaxMint, rt \in UpdateRatings, c \in UpdateComments :
          UpdateBegin(p, id, rt, c)
    \/ UpdateSetItem(p)
    \/ UpdateSetUser(p)

\* the steps of the two cascades in slot p
CascadeStep(p) ==
    \/ \E i \in Items, copy \in Copies : DeleteItemBegin(p, i, copy)
    \/ DeleteItemPull(p)
    \/ DeleteItemRemove(p)
    \/ \E u \in Users, copy \in Copies : DeleteUserBegin(p, u, copy)
    \/ DeleteUserPull(p)
    \/ DeleteUserRemove(p)

\* Requests one after the other: only slot 1 takes requests, so a request
\* arrives only when the one before it has returned.
Next == SubmitStep(1) \/ ReviewStep(1) \/ HelperStep(1) \/ CascadeStep(1)

Spec == Init /\ [][Next]_vars

\* Only Submit, Update and Delete requests, one after the other.
NextReviews == SubmitStep(1) \/ ReviewStep(1) \/ HelperStep(1)

SpecReviews == Init /\ [][NextReviews]_vars

\* Requests one after the other, the Submit and Update requests drawn from
\* every case of the handlers' checks (one comment value).
SubmitAnyStep(p) ==
    \/ \E ss \in AnySession, i \in AnyItemId, u \in AnyUsername,
          rt \in AnySubmitRating : SubmitRequest(p, ss, i, u, rt, Absent)
    \/ SubmitFindUser(p)
    \/ SubmitFindExisting(p)
    \/ SubmitPullItem(p)
    \/ SubmitPullUser(p)
    \/ SubmitIncItem(p)
    \/ SubmitIncUser(p)
    \/ SubmitPushItem(p)
    \/ SubmitPushUser(p)

ReviewAnyStep(p) ==
    \/ \E id \in 1..MaxMint : DeleteBegin(p, id)
    \/ DeletePullItem(p)
    \/ DeletePullUser(p)
    \/ \E id \in 1..MaxMint, rt \in AnyUpdateRating, c \in UpdateComments :
          UpdateBegin(p, id, rt, c)
    \/ UpdateSetItem(p)
    \/ UpdateSetUser(p)

NextGuards ==
    SubmitAnyStep(1) \/ ReviewAnyStep(1) \/ HelperStep(1) \/ CascadeStep(1)

SpecGuards == Init /\ [][NextGuards]_vars

\* Two request slots, Submit requests only: their steps interleave freely.
NextSubmits == \E p \in Procs : SubmitStep(p) \/ HelperStep(p)

SpecSubmits == Init /\ [][NextSubmits]_vars

\* the steps of a deletion of item i1 in slot p
ItemDeleteStep(p) ==
    \/ \E copy \in Copies : DeleteItemBegin(p, "i1", copy)
    \/ DeleteItemPull(p)
    \/ DeleteItemRemove(p)

\* the steps of a Submit for item i1, rating 8, without a comment
SubmitItemStep(p) ==
    \/ \E u \in Users : SubmitBegin(p, "i1", u, Num(8), Absent)
    \/ SubmitFindUser(p)
    \/ SubmitFindExisting(p)
    \/ SubmitPullItem(p)
    \/ SubmitPullUser(p)
    \/ SubmitIncItem(p)
    \/ SubmitIncUser(p)
    \/ SubmitPushItem(p)
    \/ SubmitPushUser(p)

\* Submit requests for one item in slot 1, deletions of that item in both
\* slots: two deletions may be in flight at once.
NextItemDeletes ==
    \/ SubmitItemStep(1)
    \/ \E p \in Procs : ItemDeleteStep(p) \/ HelperStep(p)

SpecItemDeletes == Init /\ [][NextItemDeletes]_vars

\* ------------------------------------------ POST /api/users (registration)
Passwords == {Absent, "secret"}

\* the body check (400), then findOne({ username }): 409 when a user with
\* that name exists; then the password is hashed
CreateUserFind(r0, username, password) ==
    LET r == [r0 EXCEPT !.op = "createUser", !.username = username,
                        !.password = password]
    IN  IF MissingField(username) \/ MissingField(password) THEN Return(r, 400)
        ELSE IF username \in DOMAIN users THEN Return(r, 409)
        ELSE [r EXCEPT !.pc = "c_insert"]

\* a registration arrives in slot p
CreateUserBegin(p, username, password) ==
    /\ Arrive(p, CreateUserFind(IdleReq, username, password))
    /\ UNCHANGED << items, users, nextId >>

\* insertOne(newUser): one more document with that username
InsertOne(us, username) ==
    IF username \in DOMAIN us
    THEN [us EXCEPT ![username].copies = @ + 1]
    ELSE [v \in DOMAIN us \cup {username} |-> IF v = username THEN UserDoc0 ELSE us[v]]

\* insertOne(newUser), then the 201 response
CreateUserInsert(p) ==
    /\ req[p].pc = "c_insert"
    /\ users' = InsertOne(users, req[p].username)
    /\ Wrote(p, "insertOne", "users", req[p].username, TRUE)
    /\ Goto(p, Return(req[p], 201))
    /\ UNCHANGED << items, nextId, pre >>

\* a database without users
InitUsers ==
    /\ items = [i \in Items |-> ItemDoc0]
    /\ users = [u \in {} |-> UserDoc0]
    /\ nextId = 1
    /\ req = [p \in Procs |-> IdleReq]
    /\ pre = [p \in Procs |-> NoSnapshot]
    /\ wlog = [p \in Procs |-> << >>]

\* Two request slots, registrations only: their steps interleave freely.
NextUsers ==
    \E p \in Procs :
        \/ \E u \in AnyUsername, pw \in Passwords : CreateUserBegin(p, u, pw)
        \/ CreateUserInsert(p)
        \/ Release(p)

SpecUsers == InitUsers /\ [][NextUsers]_vars

\* ------------------------------------------------- storage-layer failures
\* the positions of a Submit, Update or Delete at which the next statement
\* is a call of the database
AwaitingDb ==
    {"s_findUser", "s_findExisting", "s_pullItem", "s_pullUser", "s_incItem",
     "s_incUser", "s_pushItem", "s_pushUser", "d_pullItem", "d_pullUser",
     "u_setItem", "u_setUser", "agg_read", "agg_write"}

OnErrorSuccess(r) == Return(r, SuccessStatus(r.op))
\* catch (error) { ... return NextResponse.json({ error }, { status: 500 }) }
OnError(r) == Return(r, 500)

\* the database call the handler is about to make throws: nothing is
\* written, and the handler's catch block answers
Fail(p) ==
    /\ req[p].op \in {"submit", "update", "delete"}
    /\ req[p].pc \in AwaitingDb
    /\ Goto(p, OnError(req[p]))
    /\ UNCHANGED << items, users, nextId, pre, wlog >>

\* the steps of a Submit of user u1 for item i1, without a comment
SubmitPairStep(p) ==
    \/ \E rt \in RatingInputs : SubmitBegin(p, "i1", "u1", rt, Absent)
    \/ SubmitFindUser(p)
    \/ SubmitFindExisting(p)
    \/ SubmitPullItem(p)
    \/ SubmitPullUser(p)
    \/ SubmitIncItem(p)
    \/ SubmitIncUser(p)
    \/ SubmitPushItem(p)
    \/ SubmitPushUser(p)

\* Submit requests of one user for one item, Update and Delete requests,
\* one after the other, with a storage layer that may fail at any call.
NextFailures == SubmitPairStep(1) \/ ReviewStep(1) \/ HelperStep(1) \/ Fail(1)

SpecFailures == Init /\ [][NextFailures]_vars

\* ------------------------------------------- the rating helper on its own
\* a rating that is a text parseFloat makes no number of
Text == [t |-> "text", v |-> 0]
\* the ratings of the reviews an item is created with: numbers, a numeric
\* text, null, a non-numeric text
StoredRatings == {Num(5), Num(10), Str(7), NoRating, Text}

\* the review lists POST /api/items accepts in its body (reviews:
\* itemData.reviews || [])
GivenReviews ==
    UNION { [1..n -> { [id |-> 0, username |-> "u1", rating |-> x, comment |-> ""] :
                          x \in StoredRatings }] : n \in 0..MaxListLen }

\* item i1 has been created with a list of reviews
InitAggregate ==
    /\ \E list \in GivenReviews :
          items = [i \in Items |->
                     IF i = "i1" THEN [ItemDoc0 EXCEPT !.reviews = list] ELSE ItemDoc0]
    /\ users = [u \in Users |-> UserDoc0]
    /\ nextId = 1
    /\ req = [p \in Procs |-> IdleReq]
    /\ pre = [p \in Procs |-> NoSnapshot]
    /\ wlog = [p \in Procs |-> << >>]

\* await updateItemRating(db, itemId), the filtering helper
UpdateItemRatingCall(p, itemId) ==
    /\ Arrive(p, StartAgg([IdleReq EXCEPT !.op = "aggregate", !.itemId = itemId],
                          "filter", << ItemTarget(itemId) >>))
    /\ UNCHANGED << items, users, nextId >>

NextAggregate == UpdateItemRatingCall(1, "i1") \/ HelperStep(1)

SpecAggregate == InitAggregate /\ [][NextAggregate]_vars

\* ------------------------------------------------------- middleware.ts
\* a path is the sequence of its segments: /api/items/i1 is
\* << "api", "items", "i1" >>
StartsWith(path, prefix) ==
    Len(path) >= Len(prefix) /\ SubSeq(path, 1, Len(prefix)) = prefix

ItemsPath == << "api", "items" >>
UsersPath == << "api", "users" >>
ItemPath(id) == << "api", "items", id >>
UserPath(username) == << "api", "users", username >>

\* the token of a signed-in user who is no admin, and of an admin
Tokens == {NoToken, "user", "admin"}
\* token.isAdmin
IsAdmin(token) == token = "admin"

\* NextResponse.next(): the request goes on to its route handler
Pass == 0
\* NextResponse.redirect
Redirect == 307

\* the routes the middleware asks admin privileges for
IsAdminRoute(path, method) ==
    \/ path = UsersPath /\ method = "DELETE"
    \/ path = ItemsPath /\ method = "DELETE"
    \/ path = ItemsPath /\ method = "POST"
    \/ path = UsersPath /\ method = "POST"
    \/ StartsWith(path, << "admin" >>)

\* what middleware(req) answers: Pass, or the status of its own response
Middleware(path, method, token) ==
    IF \/ StartsWith(path, ItemsPath) /\ method = "GET"
       \/ StartsWith(path, << "items" >>)
       \/ StartsWith(path, << "login" >>)
       \/ path = << >>
    THEN Pass
    ELSE IF token = NoToken
    THEN (IF ~StartsWith(path, << "api" >>) THEN Redirect ELSE 401)
    ELSE IF IsAdminRoute(path, method) /\ ~IsAdmin(token)
    THEN (IF ~StartsWith(path, << "api" >>) THEN Redirect ELSE 403)
    ELSE Pass

\* the ids insertOne gives to the items created later
NewItemIds == {"i3"}
\* no document holds the id: it is as good as a new ObjectId
Unused(id) ==
    /\ id \notin DOMAIN items
    /\ \A u \in DOMAIN users : \A f \in Range(users[u].itemReviews) : f.itemId # id

\* a request arrives at the middleware: it is answered there, or goes on
\* to the handler of its route
MiddlewareStep(p, token, method, path) ==
    /\ (method = "POST" /\ path = ItemsPath) => \E id \in NewItemIds : Unused(id)
    /\ LET r == [IdleReq EXCEPT !.op = "request", !.token = token,
                                !.method = method, !.path = path]
           m == Middleware(path, method, token)
       IN  Arrive(p, IF m = Pass THEN [r EXCEPT !.pc = "routed"] ELSE Return(r, m))
    /\ UNCHANGED << items, users, nextId >>

\* the request of slot p has passed the middleware and is for this route
Routed(p, method, path) ==
    /\ req[p].pc = "routed"
    /\ req[p].method = method
    /\ req[p].path = path

\* the GET handlers read and answer
RouteGet(p) ==
    /\ req[p].pc = "routed"
    /\ req[p].method = "GET"
    /\ Goto(p, Return(req[p], 200))
    /\ UNCHANGED << items, users, nextId, pre, wlog >>

\* the route files of /api/items/[id] and /api/users/[username] export no
\* POST: the framework answers 405
RouteNoHandler(p) ==
    /\ req[p].pc = "routed"
    /\ req[p].method = "POST"
    /\ Len(req[p].path) = 3
    /\ Goto(p, Return(req[p], 405))
    /\ UNCHANGED << items, users, nextId, pre, wlog >>

\* DELETE /api/items/[id] behind the middleware
RouteDeleteItem(p, itemId, copy) ==
    /\ Routed(p, "DELETE", ItemPath(itemId))
    /\ Goto(p, DeleteItemFind(req[p], itemId, copy))
    /\ UNCHANGED << items, users, nextId, pre, wlog >>

\* DELETE /api/users/[username] behind the middleware
RouteDeleteUser(p, username, copy) ==
    /\ Routed(p, "DELETE", UserPath(username))
    /\ Goto(p, DeleteUserFind(req[p], username, copy))
    /\ UNCHANGED << items, users, nextId, pre, wlog >>

\* POST /api/users behind the middleware
RouteCreateUser(p, username, password) ==
    /\ Routed(p, "POST", UsersPath)
    /\ Goto(p, CreateUserFind(req[p], username, password))
    /\ UNCHANGED << items, users, nextId, pre, wlog >>

\* process.env.ADMIN_DELETE_KEY
ExpectedKey == "admin-delete-key"
\* the x-admin-key header: absent, wrong, right
AdminKeys == {Absent, "wrong", ExpectedKey}

\* !adminKey || adminKey !== expectedKey
KeyRejected(adminKey) == adminKey = Absent \/ adminKey # ExpectedKey

\* DELETE /api/users: 401 without the admin key, else deleteMany({})
DeleteAllUsers(p, adminKey) ==
    /\ Routed(p, "DELETE", UsersPath)
    /\ LET r == [req[p] EXCEPT !.op = "deleteAllUsers", !.adminKey = adminKey] IN
       IF KeyRejected(adminKey)
       THEN /\ Goto(p, Return(r, 401))
            /\ UNCHANGED << users, wlog >>
       ELSE /\ users' = [u \in {} |-> UserDoc0]
            /\ Wrote(p, "deleteMany", "users", "", users # users')
            /\ Goto(p, Return(r, 200))
    /\ UNCHANGED << items, nextId, pre >>

\* DELETE /api/items: deleteMany({}); the x-admin-key header is not read
DeleteAllItems(p, adminKey) ==
    /\ Routed(p, "DELETE", ItemsPath)
    /\ LET r == [req[p] EXCEPT !.op = "deleteAllItems", !.adminKey = adminKey] IN
       /\ items' = [i \in {} |-> ItemDoc0]
       /\ Wrote(p, "deleteMany", "items", "", items # items')
       /\ Goto(p, Return(r, 200))
    /\ UNCHANGED << users, nextId, pre >>

\* validTypes
ValidTypes == {"vinyl", "antiqueFurniture", "gpsWatch", "runningShoes"}

\* the bodies of the item creations: with or without a name, without an
\* itemType, with a valid one, with an invalid one; the other required
\* fields are there, the review fields are not
CreateItemBodies ==
    { [NoBody EXCEPT !.itemType = t, !.name = n] :
        t \in {NotGiven, Given("vinyl"), Given("boat")},
        n \in {NotGiven, Given("record")} }

\* newItem: the body, and the defaults of the review fields
NewItem(b) ==
    [reviews |-> IF Truthy(b.reviews) THEN b.reviews[1] ELSE << >>,
     reviewCount |-> IF Truthy(b.reviewCount) THEN b.reviewCount[1] ELSE 0,
     rating |-> IF Truthy(b.rating) THEN b.rating[1] ELSE 0,
     itemType |-> b.itemType[1], name |-> b.name[1]]

\* POST /api/items: 400 for a missing field or an invalid type, else
\* insertOne(newItem)
CreateItem(p, body, id) ==
    /\ Routed(p, "POST", ItemsPath)
    /\ Unused(id)
    /\ LET r == [req[p] EXCEPT !.op = "createItem", !.body = body] IN
       IF ~Truthy(body.name) \/ ~Truthy(body.itemType)
          \/ body.itemType[1] \notin ValidTypes
       THEN /\ Goto(p, Return(r, 400))
            /\ UNCHANGED << items, wlog >>
       ELSE /\ items' = [i \in DOMAIN items \cup {id} |->
                            IF i = id THEN NewItem(body) ELSE items[i]]
            /\ Wrote(p, "insertOne", "items", id, TRUE)
            /\ Goto(p, Return([r EXCEPT !.itemId = id], 201))
    /\ UNCHANGED << users, nextId, pre >>

Methods == {"GET", "POST", "DELETE"}
\* the paths of the management routes
Paths == {ItemsPath, UsersPath, ItemPath("i1"), UserPath("u1")}

\* the steps of a request to a management route in slot p
ManageStep(p) ==
    \/ \E t \in Tokens, m \in Methods, path \in Paths : MiddlewareStep(p, t, m, path)
    \/ RouteGet(p)
    \/ RouteNoHandler(p)
    \/ \E copy \in Copies : RouteDeleteItem(p, "i1", copy)
    \/ DeleteItemPull(p)
    \/ DeleteItemRemove(p)
    \/ \E copy \in Copies : RouteDeleteUser(p, "u1", copy)
    \/ DeleteUserPull(p)
    \/ DeleteUserRemove(p)
    \/ \E pw \in Passwords : RouteCreateUser(p, "u1", pw)
    \/ CreateUserInsert(p)
    \/ \E k \in AdminKeys : DeleteAllUsers(p, k)
    \/ \E k \in AdminKeys : DeleteAllItems(p, k)
    \/ \E b \in CreateItemBodies, id \in NewItemIds : CreateItem(p, b, id)

\* Submit requests for item i1 and requests to the management routes, one
\* after the other.
NextManage == SubmitItemStep(1) \/ ManageStep(1) \/ HelperStep(1)

SpecManage == Init /\ [][NextManage]_vars

\* the steps of the entity edits in slot p
EditStep(p) ==
    \/ \E i \in {"i1", MalformedId}, b \in ItemBodies : PutItemBegin(p, i, b)
    \/ PutItemSet(p)
    \/ \E b \in UserBodies : PutUserBegin(p, "u1", b)
    \/ PutUserSet(p)

\* Submit requests for item i1 and edits of item i1 and of user u1, one
\* after the other.
NextEdits == SubmitItemStep(1) \/ EditStep(1) \/ HelperStep(1)

SpecEdits == Init /\ [][NextEdits]_vars

\* ================================================================ claims
\* no request is in flight
AtRest == \A p \in Procs : req[p].pc \in {"idle", "done"}

\* the request of slot 1 has just returned
Done(op, status) ==
    /\ req[1].pc = "done"
    /\ req[1].op = op
    /\ req[1].resp = status

RECURSIVE SumOfRatings(_)
\* the sum of the ratings of a list, a numeric text counting as its number
SumOfRatings(list) ==
    IF list = << >> THEN 0 ELSE Head(list).rating.v + SumOfRatings(Tail(list))

\* r (in tenths) is the mean of the list's ratings rounded to one decimal,
\* 0 for the empty list
IsMeanOf(r, list) ==
    IF list = << >> THEN r = 0
    ELSE LET d == r * Len(list) - 10 * SumOfRatings(list)
         IN  2 * d <= Len(list) /\ -2 * d <= Len(list)

\* the number of entries of a list with a given id and rating
CountOf(list, id, rating) ==
    Cardinality({ k \in 1..Len(list) : list[k].id = id /\ list[k].rating = rating })

\* every item-side entry has exactly one user-side entry with its id and rating
ItemSideMirrored ==
    \A i \in DOMAIN items : \A k \in 1..Len(items[i].reviews) :
        LET e == items[i].reviews[k] IN
        /\ e.username \in DOMAIN users
        /\ CountOf(users[e.username].itemReviews, e.id, e.rating) = 1

\* every user-side entry has exactly one item-side entry with its id and rating
UserSideMirrored ==
    \A u \in DOMAIN users : \A k \in 1..Len(users[u].itemReviews) :
        LET f == users[u].itemReviews[k] IN
        /\ f.itemId \in DOMAIN items
        /\ CountOf(items[f.itemId].reviews, f.id, f.rating) = 1

C2_AggregateAtRest ==
    AtRest =>
        /\ \A i \in DOMAIN items : IsMeanOf(items[i].rating, items[i].reviews)
        /\ \A u \in DOMAIN users : IsMeanOf(users[u].averageRating, users[u].itemReviews)

OnePerPair ==
    /\ \A i \in DOMAIN items : \A j, k \in 1..Len(items[i].reviews) :
          items[i].reviews[j].username = items[i].reviews[k].username => j = k
    /\ \A u \in DOMAIN users : \A j, k \in 1..Len(users[u].itemReviews) :
          users[u].itemReviews[j].itemId = users[u].itemReviews[k].itemId => j = k

\* C4: in every reachable state, also while two Submit requests of one
\* user for one item are in flight with their reads and writes interleaved,
\* no item's reviews hold two entries of one username and no user's
\* itemReviews hold two entries of one itemId.
C4_OnePerPairAlways == OnePerPair

\* the entries of the item's list written by the user, before the request
PriorOf(P, i, u) == { e \in Range(P.items[i].reviews) : e.username = u }

\* the ids of all reviews of a snapshot
IdsOf(P) ==
    UNION { { e.id : e \in Range(P.items[i].reviews) } : i \in DOMAIN P.items }
    \cup UNION { { f.id : f \in Range(P.users[u].itemReviews) } : u \in DOMAIN P.users }

\* C5: a first Submit for a pair appends one entry to the item's reviews
\* and one to the user's itemReviews, both with the same new id, the
\* submitted rating and comment ("" when absent), and raises both
\* reviewCounts by 1; on an empty list the rating 8 yields the average 8.0
\* and the count 1.
C5_FirstSubmit ==
    LET r == req[1]
        P == pre[1]
        i == r.itemId
        u == r.username
        c == IF r.comment = Absent THEN "" ELSE r.comment
    IN  Done("submit", 201) /\ PriorOf(P, i, u) = {} =>
        /\ r.rid \notin IdsOf(P)
        /\ items[i].reviews = P.items[i].reviews \o
              << [id |-> r.rid, username |-> u, rating |-> r.rating, comment |-> c] >>
        /\ users[u].itemReviews = P.users[u].itemReviews \o
              << [id |-> r.rid, itemId |-> i, rating |-> r.rating, comment |-> c] >>
        /\ items[i].reviewCount = P.items[i].reviewCount + 1
        /\ users[u].reviewCount = P.users[u].reviewCount + 1
        /\ P.items[i].reviews = << >> /\ r.rating = Num(8) =>
              items[i].rating = 80 /\ items[i].reviewCount = 1
        /\ P.users[u].itemReviews = << >> /\ r.rating = Num(8) =>
              users[u].averageRating = 80 /\ users[u].reviewCount = 1

\* C5 witness: the spec's scenario, a first review of rating 8 without a
\* comment on an item without reviews by a user without reviews.
C5_Witness ==
    /\ Done("submit", 201)
    /\ pre[1].items[req[1].itemId].reviews = << >>
    /\ pre[1].users[req[1].username].itemReviews = << >>
    /\ req[1].rating = Num(8)
    /\ req[1].comment = Absent

\* C6: a Submit by a user who already has a review on the item removes the
\* old entry from both lists, adds an entry with a new, different id to
\* both, leaves exactly one entry of the pair on each side and both
\* reviewCounts as they were.
C6_Upsert ==
    LET r == req[1]
        P == pre[1]
        i == r.itemId
        u == r.username
    IN  Done("submit", 201) /\ PriorOf(P, i, u) # {} =>
        \A o \in PriorOf(P, i, u) :
            /\ r.rid # o.id
            /\ \A e \in Range(items[i].reviews) : e.id # o.id
            /\ \A f \in Range(users[u].itemReviews) : f.id # o.id
            /\ CountOf(items[i].reviews, r.rid, r.rating) = 1
            /\ CountOf(users[u].itemReviews, r.rid, r.rating) = 1
            /\ Cardinality({ k \in 1..Len(items[i].reviews) :
                                items[i].reviews[k].username = u }) = 1
            /\ Cardinality({ k \in 1..Len(users[u].itemReviews) :
                                users[u].itemReviews[k].itemId = i }) = 1
            /\ items[i].reviewCount = P.items[i].reviewCount
            /\ users[u].reviewCount = P.users[u].reviewCount

\* C6 witness: a user who rated an item 8 re-submits the text rating "7"
\* with a comment.
C6_Witness ==
    /\ Done("submit", 201)
    /\ \E o \in PriorOf(pre[1], req[1].itemId, req[1].username) : o.rating = Num(8)
    /\ req[1].rating = Str(7)
    /\ req[1].comment = "great"

\* the positions of request 1's rating writes to one document
RatingWrites(coll, key) ==
    { k \in 1..Len(wlog[1]) :
        wlog[1][k].k = "rating" /\ wlog[1][k].coll = coll /\ wlog[1][k].key = key }

\* the positions of request 1's deleteOne calls
RemovalsAt == { k \in 1..Len(wlog[1]) : wlog[1][k].k = "deleteOne" }

\* the list without the entries of the given id
WithoutId(list, id) ==
    LET Keep(e) == e.id # id IN SelectSeq(list, Keep)

\* every rating of the list is a JSON number
AllNumbers(list) == \A k \in 1..Len(list) : list[k].rating.t = "number"

RECURSIVE TotalEntries(_, _)
\* the number of itemReviews entries of the users S of a users collection
TotalEntries(us, S) ==
    IF S = {} THEN 0
    ELSE LET x == CHOOSE x \in S : TRUE
         IN  Len(us[x].itemReviews) + TotalEntries(us, S \ {x})

RECURSIVE TotalReviews(_, _)
\* the number of reviews entries of the items S of an items collection
TotalReviews(is, S) ==
    IF S = {} THEN 0
    ELSE LET x == CHOOSE x \in S : TRUE
         IN  Len(is[x].reviews) + TotalReviews(is, S \ {x})

C9_UserCascade ==
    LET r == req[1]
        P == pre[1]
        u == r.username
        K == { f.itemId : f \in Range(P.users[u].itemReviews) }
        NotByUser(e) == e.username # u
    IN  Done("deleteUser", 200) =>
        /\ u \notin DOMAIN users
        /\ DOMAIN items = DOMAIN P.items
        /\ K \subseteq DOMAIN items
        /\ TotalReviews(P.items, K) - TotalReviews(items, K) = Len(P.users[u].itemReviews)
        /\ \A i \in DOMAIN items :
              /\ items[i].reviews = SelectSeq(P.items[i].reviews, NotByUser)
              /\ items[i].reviewCount = P.items[i].reviewCount
                    - (Len(P.items[i].reviews) - Len(items[i].reviews))
              /\ i \notin K => items[i] = P.items[i]
              /\ Cardinality(RatingWrites("items", i)) = (IF i \in K THEN 1 ELSE 0)
              /\ \A k \in RatingWrites("items", i) : \A d \in RemovalsAt : d < k
        /\ Cardinality(RemovalsAt) = 1
        /\ \A v \in DOMAIN users : RatingWrites("users", v) = {}

\* C9 witness: a user with reviews on two items has been deleted.
C9_Witness ==
    /\ Done("deleteUser", 200)
    /\ Len(pre[1].users[req[1].username].itemReviews) = 2
    /\ Len(wlog[1]) = 5

\* the position of the entry with the id in the list (0 if none)
PlaceOf(list, id) ==
    IF \E k \in 1..Len(list) : list[k].id = id
    THEN CHOOSE k \in 1..Len(list) : list[k].id = id
    ELSE 0

\* C10: Update of a review present on both sides sets the supplied fields
\* to the same values in the item-side and in the user-side entry with
\* that id and changes no other entry of either list; afterwards the two
\* copies have equal rating and comment.
C10_Update ==
    LET r == req[1]
        P == pre[1]
        i == r.itemId
        u == r.username
        a == PlaceOf(P.items[i].reviews, r.rid)
        b == PlaceOf(P.users[u].itemReviews, r.rid)
    IN  /\ Done("update", 200)
        /\ \E e \in Range(P.items[i].reviews) : e.id = r.rid
        /\ \E f \in Range(P.users[u].itemReviews) : f.id = r.rid
        =>
        /\ Len(items[i].reviews) = Len(P.items[i].reviews)
        /\ Len(users[u].itemReviews) = Len(P.users[u].itemReviews)
        /\ \A k \in 1..Len(items[i].reviews) :
              k # a => items[i].reviews[k] = P.items[i].reviews[k]
        /\ \A k \in 1..Len(users[u].itemReviews) :
              k # b => users[u].itemReviews[k] = P.users[u].itemReviews[k]
        /\ \A j \in DOMAIN items : j # i => items[j].reviews = P.items[j].reviews
        /\ \A v \in DOMAIN users : v # u => users[v].itemReviews = P.users[v].itemReviews
        /\ LET e == items[i].reviews[a]
               f == users[u].itemReviews[b]
               e0 == P.items[i].reviews[a]
               f0 == P.users[u].itemReviews[b]
           IN  /\ e.id = r.rid /\ f.id = r.rid
               /\ e.username = e0.username /\ f.itemId = f0.itemId
               /\ e.rating = (IF r.rating = NoRating THEN e0.rating ELSE r.rating)
               /\ f.rating = (IF r.rating = NoRating THEN f0.rating ELSE r.rating)
               /\ e.comment = (IF r.comment = Absent THEN e0.comment ELSE r.comment)
               /\ f.comment = (IF r.comment = Absent THEN f0.comment ELSE r.comment)
               /\ e.rating = f.rating
               /\ e.comment = f.comment

\* C10 witness: an Update with a rating and a comment has changed the
\* second of the two reviews of an item.
C10_Witness ==
    /\ Done("update", 200)
    /\ req[1].rating = Str(7)
    /\ req[1].comment = "great"
    /\ Len(items[req[1].itemId].reviews) = 2
    /\ items[req[1].itemId].reviews[2].id = req[1].rid
    /\ pre[1].items[req[1].itemId].reviews[2].rating = Num(8)
    /\ pre[1].items[req[1].itemId].reviews[2].comment = ""

\* the rating the review had on the item side when the request arrived
StoredRating(P, i, id) == P.items[i].reviews[PlaceOf(P.items[i].reviews, id)].rating

\* C11: an Update that leaves the review's rating as it was (a request
\* without a rating, or with the rating already stored) makes no rating
\* write on the item or on the user, and an Update that changes the
\* rating makes one on each.
C11_UpdateAggregatesOnlyOnChange ==
    LET r == req[1]
        P == pre[1]
        changed == r.rating # NoRating /\ r.rating # StoredRating(P, r.itemId, r.rid)
    IN  /\ req[1].op = "update"
        /\ req[1].pc = "done"
        /\ req[1].resp \in {200, 400}
        /\ r.itemId \in DOMAIN P.items
        /\ \E e \in Range(P.items[r.itemId].reviews) : e.id = r.rid
        =>
        IF changed
        THEN /\ Cardinality(RatingWrites("items", r.itemId)) = 1
             /\ Cardinality(RatingWrites("users", r.username)) = 1
        ELSE /\ RatingWrites("items", r.itemId) = {}
             /\ RatingWrites("users", r.username) = {}

\* request 1 has been answered and has written nothing
Untouched == items = pre[1].items /\ users = pre[1].users /\ wlog[1] = << >>

\* the rating is no number of [1,10]
NotInOneToTen(rating) == rating.v < 1 \/ rating.v > 10

HeldIn(P, id) == { i \in DOMAIN P.items : \E e \in Range(P.items[i].reviews) : e.id = id }

ValidPlaces(list) == { k \in 1..Len(list) : list[k].rating.t \in {"number", "string"} }

RECURSIVE SumAt(_, _)
\* the sum of the ratings at the positions S of the list
SumAt(list, S) ==
    IF S = {} THEN 0
    ELSE LET k == CHOOSE k \in S : TRUE
         IN  list[k].rating.v + SumAt(list, S \ {k})

\* r (in tenths) is the mean of the valid ratings of the list to one
\* decimal, or 0 when there is no valid rating
IsAggregateOf(r, list) ==
    LET n == Cardinality(ValidPlaces(list))
    IN  IF n = 0 THEN r = 0
        ELSE LET d == r * n - 10 * SumAt(list, ValidPlaces(list))
             IN  2 * d <= n /\ -2 * d <= n

\* the ratings of a list, in order
RatingsOf(list) == [k \in 1..Len(list) |-> list[k].rating]

\* C15: the filtering helper stores the sum of the valid ratings (numbers,
\* and numeric texts as their numbers) divided by their count, rounded to
\* one decimal, and 0 when no rating is valid; [] gives 0 and
\* [5, "7", null] gives 6.0.
C15_Aggregate ==
    LET list == pre[1].items["i1"].reviews
        r == items["i1"].rating
    IN  Done("aggregate", 200) =>
        /\ IsAggregateOf(r, list)
        /\ list = << >> => r = 0
        /\ RatingsOf(list) = << Num(5), Str(7), NoRating >> => r = 60
        /\ items["i1"].reviews = list
        /\ users = pre[1].users

\* C15 witness: the helper has run on the ratings [5, "7", null].
C15_Witness ==
    /\ Done("aggregate", 200)
    /\ RatingsOf(items["i1"].reviews) = << Num(5), Str(7), NoRating >>
    /\ items["i1"].rating = 60

\* the positions of a handler right after an item-side write whose
\* user-side write is the next statement
BeforeUserWrite == {"s_pullUser", "s_incUser", "s_pushUser", "d_pullUser", "u_setUser"}

\* C16: when request 1 stops between an item-side write and the user-side
\* write that should follow (it ends there without having made the write),
\* the response is an error, and neither that step nor anything the
\* request does after its response changes an item or a user: the
\* item-side write stays, nothing is compensated, nothing is retried.
C16_NoRollback ==
    [][ /\ ( /\ req[1].pc \in BeforeUserWrite
             /\ req'[1].pc = "done"
             /\ wlog'[1] = wlog[1] )
           => /\ req'[1].resp = 500
              /\ items' = items
              /\ users' = users
        /\ req[1].pc = "done" => (items' = items /\ users' = users)
      ]_vars

\* C16 witness: a Delete has failed after its item-side write; the review
\* is gone from the item and still in the user's list.
C16_Witness ==
    /\ Done("delete", 500)
    /\ wlog[1] = << [k |-> "pull_inc", coll |-> "items", key |-> req[1].itemId, hit |-> TRUE] >>
    /\ \A e \in Range(items[req[1].itemId].reviews) : e.id # req[1].rid
    /\ \E f \in Range(users[req[1].username].itemReviews) : f.id = req[1].rid
    /\ users = pre[1].users

\* C17: a Submit, Update or Delete that has changed the items and not the
\* users, or the users and not the items, is never answered with a
\* success status.
C17_NoSilentPartialSuccess ==
    LET r == req[1]
        P == pre[1]
    IN  /\ r.op \in {"submit", "update", "delete"}
        /\ r.pc = "done"
        /\ (items # P.items) # (users # P.users)
        => r.resp \notin {200, 201}

\* what a Submit of u for i leaves behind when it fails right after the
\* item-side reviewCount increment: the item counts one review more than
\* it lists, the user is as it was
LeftAfterIncrement(P, i, u) ==
    /\ P.items[i].reviews = << >>
    /\ P.items[i].reviewCount = 1
    /\ P.users[u] = UserDoc0

\* what a Submit of u for i leaves behind when it fails right after the
\* item-side push: the item lists the review, the user has counted it and
\* does not list it
LeftAfterPush(P, i, u) ==
    /\ Len(P.items[i].reviews) = 1
    /\ P.items[i].reviews[1].username = u
    /\ P.items[i].reviewCount = 1
    /\ P.users[u].itemReviews = << >>
    /\ P.users[u].reviewCount = 1

\* C18: from a state a failed Submit of user u for item i has left (after
\* the item-side increment, or after the item-side push), the next
\* successful Submit of u for i leaves one mirrored entry on each side,
\* both reviewCounts equal to the list lengths and both averages equal to
\* the means of the lists.
C18_RepairOnNextSubmit ==
    LET r == req[1]
        P == pre[1]
        i == r.itemId
        u == r.username
    IN  /\ Done("submit", 201)
        /\ LeftAfterIncrement(P, i, u) \/ LeftAfterPush(P, i, u)
        =>
        /\ Len(items[i].reviews) = 1
        /\ Len(users[u].itemReviews) = 1
        /\ items[i].reviews[1].id = users[u].itemReviews[1].id
        /\ items[i].reviews[1].rating = users[u].itemReviews[1].rating
        /\ items[i].reviews[1].username = u
        /\ users[u].itemReviews[1].itemId = i
        /\ items[i].reviewCount = Len(items[i].reviews)
        /\ users[u].reviewCount = Len(users[u].itemReviews)
        /\ IsMeanOf(items[i].rating, items[i].reviews)
        /\ IsMeanOf(users[u].averageRating, users[u].itemReviews)

\* C19: no two user documents have the same username, and a registration
\* for a username that exists when the request arrives is answered 409 and
\* inserts nothing, also when two registrations for one username are in
\* flight at once.
C19_UsernamesUnique ==
    /\ \A u \in DOMAIN users : users[u].copies = 1
    /\ \A p \in Procs :
          /\ req[p].op = "createUser"
          /\ req[p].pc = "done"
          /\ req[p].password # Absent
          /\ req[p].username \in DOMAIN pre[p].users
          => req[p].resp = 409 /\ wlog[p] = << >>

\* the request in slot p is an item deletion whose deleteOne found nothing
\* to delete
RemovedNothing(p) ==
    /\ req[p].op = "deleteItem"
    /\ req[p].pc = "done"
    /\ \E k \in 1..Len(wlog[p]) : wlog[p][k].k = "deleteOne" /\ ~wlog[p][k].hit

\* C20: an item deletion whose deleteOne reports that nothing was deleted
\* is answered with an error, and the request writes nothing after that
\* deleteOne and has made no write but its detaching pulls: the entries it
\* detached are not pushed back, no reviewCount is raised again, and no
\* user lists a review of the item.
C20_NoReattach ==
    \A p \in Procs :
        RemovedNothing(p) =>
        /\ req[p].resp = 400
        /\ wlog[p][Len(wlog[p])].k = "deleteOne"
        /\ \A k \in 1..(Len(wlog[p]) - 1) :
              wlog[p][k].k = "pull_inc" /\ wlog[p][k].coll = "users"
        /\ \A u \in DOMAIN users :
              \A f \in Range(users[u].itemReviews) : f.itemId # req[p].itemId

\* C20 witness: a deletion of an item with two reviews found the item
\* gone after it had detached the reviews from their users.
C20_Witness ==
    \E p \in Procs :
        /\ RemovedNothing(p)
        /\ Len(wlog[p]) = 3
        /\ wlog[p][1].hit /\ wlog[p][2].hit
        /\ Len(pre[p].items[req[p].itemId].reviews) = 2

\* the writes of a replacing Submit of u for i, in the handler's order
ReplacingWrites(i, u) ==
    << [k |-> "pull", coll |-> "items", key |-> i, hit |-> TRUE],
       [k |-> "pull", coll |-> "users", key |-> u, hit |-> TRUE],
       [k |-> "push", coll |-> "items", key |-> i, hit |-> TRUE],
       [k |-> "push", coll |-> "users", key |-> u, hit |-> TRUE],
       [k |-> "rating", coll |-> "items", key |-> i, hit |-> TRUE],
       [k |-> "rating", coll |-> "users", key |-> u, hit |-> TRUE] >>

\* C24: at every moment of a replacing Submit the writes it has made are
\* the first ones of: pull from the item, pull from the user, push to the
\* item, push to the user, rating write of the item, rating write of the
\* user.  So nothing writes a rating between the removal of the old entry
\* and the insertion of the new one, each side's rating is written once,
\* after both pushes; and when the Submit has returned all six have been
\* made and the old entry is on neither side.
C24_ReplaceAggregatesOnce ==
    LET r == req[1]
        W == ReplacingWrites(r.itemId, r.username)
    IN  r.op = "submit" /\ r.existing =>
        /\ Len(wlog[1]) <= Len(W)
        /\ wlog[1] = SubSeq(W, 1, Len(wlog[1]))
        /\ r.pc = "done" =>
              /\ wlog[1] = W
              /\ r.resp = 201
              /\ \A e \in Range(items[r.itemId].reviews) : e.id # r.old
              /\ \A f \in Range(users[r.username].itemReviews) : f.id # r.old

\* C24 witness: a user has replaced their review of an item with one of a
\* different rating, and the item's rating has followed.
C24_Witness ==
    /\ Done("submit", 201)
    /\ req[1].existing
    /\ Len(wlog[1]) = 6
    /\ items[req[1].itemId].rating # pre[1].items[req[1].itemId].rating
    /\ \E o \in Range(pre[1].items[req[1].itemId].reviews) :
          o.id = req[1].old /\ o.rating # req[1].rating

\* C25: once two Submits that ran with their steps interleaved have both
\* returned 201, the rating of each item they reviewed is the aggregate of
\* the item's stored reviews and the averageRating of each user who
\* submitted is the aggregate of the user's stored itemReviews.
C25_NoLostAggregate ==
    (\A p \in Procs : /\ req[p].op = "submit"
                      /\ req[p].pc = "done"
                      /\ req[p].resp = 201)
    => \A p \in Procs :
          /\ items[req[p].itemId].rating =
                 AverageFilter(items[req[p].itemId].reviews)
          /\ users[req[p].username].averageRating =
                 AverageFilter(users[req[p].username].itemReviews)

\* C26: no step leaves a negative reviewCount, and a step that lowers the
\* reviewCount of an item or a user lowers it by exactly the number of
\* entries the step removes from that document's review list.
C26_CountFollowsRemovals ==
    [][ /\ \A u \in DOMAIN users \cap DOMAIN users' :
              /\ users'[u].reviewCount >= 0
              /\ users'[u].reviewCount < users[u].reviewCount =>
                    users[u].reviewCount - users'[u].reviewCount =
                        Len(users[u].itemReviews) - Len(users'[u].itemReviews)
        /\ \A i \in DOMAIN items \cap DOMAIN items' :
              /\ items'[i].reviewCount >= 0
              /\ items'[i].reviewCount < items[i].reviewCount =>
                    items[i].reviewCount - items'[i].reviewCount =
                        Len(items[i].reviews) - Len(items'[i].reviews)
      ]_vars

\* request p takes a step of a rating helper
HelperActs(p) == req[p].pc \in {"agg_read", "agg_write"} /\ req'[p] # req[p]

\* C27: a step of updateItemRating / updateUserRating leaves nextId, the
\* set of items and the set of users as they are; its findOne changes no
\* document; its updateOne changes at most the rating of the target item
\* (the averageRating of the target user) and no other field and no other
\* document, and changes nothing at all when the target no longer exists.
C27_HelperWritesOnlyAverage ==
    [][ \A p \in Procs : HelperActs(p) =>
          LET t == Head(req[p].aggQ) IN
          /\ nextId' = nextId
          /\ DOMAIN items' = DOMAIN items
          /\ DOMAIN users' = DOMAIN users
          /\ req[p].pc = "agg_read" => items' = items /\ users' = users
          /\ t.coll = "items" =>
                /\ users' = users
                /\ \A i \in DOMAIN items :
                      /\ i # t.key => items'[i] = items[i]
                      /\ items'[i] = [items[i] EXCEPT !.rating = items'[i].rating]
          /\ t.coll = "users" =>
                /\ items' = items
                /\ \A u \in DOMAIN users :
                      /\ u # t.key => users'[u] = users[u]
                      /\ users'[u] = [users[u] EXCEPT
                                         !.averageRating = users'[u].averageRating]
      ]_vars

\* C27 witness: a helper has written the rating of an item whose
\* reviewCount differs from the length of its list, and, in the same
\* run, a helper's updateOne has found its target item gone.
C27_Witness ==
    /\ \E p \in Procs : \E k \in 1..Len(wlog[p]) :
          /\ wlog[p][k].k = "rating"
          /\ wlog[p][k].coll = "items"
          /\ ~wlog[p][k].hit
    /\ \E p \in Procs : \E k \in 1..Len(wlog[p]) :
          /\ wlog[p][k].k = "rating"
          /\ wlog[p][k].coll = "users"
          /\ wlog[p][k].hit
          /\ users[wlog[p][k].key].reviewCount # Len(users[wlog[p][k].key].itemReviews)

\* C28: on every review list the handlers have stored, the helper without
\* filtering (review Update and Delete, second copy of the item deletion,
\* first copy of the user deletion) and the filtering helper (Submit)
\* compute the same average.
C28_HelpersAgree ==
    /\ \A i \in DOMAIN items :
          AverageReduce(items[i].reviews) = AverageFilter(items[i].reviews)
    /\ \A u \in DOMAIN users :
          AverageReduce(users[u].itemReviews) = AverageFilter(users[u].itemReviews)

\* C23: when a PUT /api/items/[id] has returned, with whatever body and
\* status, the item's itemType is what it was when the request arrived.
C23_ItemTypeKept ==
    LET r == req[1] IN
    r.op = "putItem" /\ r.pc = "done" /\ r.itemId \in DOMAIN items =>
        items[r.itemId].itemType = pre[1].items[r.itemId].itemType

\* C30: when a PUT /api/items/[id] has returned, the item's reviews,
\* reviewCount and rating are what they were when the request arrived;
\* when a PUT /api/users/[username] has returned, so are the user's
\* itemReviews, reviewCount and averageRating.
C30_EditsKeepReviewFields ==
    LET r == req[1]
        P == pre[1]
    IN  /\ r.op = "putItem" /\ r.pc = "done" /\ r.itemId \in DOMAIN items =>
              /\ items[r.itemId].reviews = P.items[r.itemId].reviews
              /\ items[r.itemId].reviewCount = P.items[r.itemId].reviewCount
              /\ items[r.itemId].rating = P.items[r.itemId].rating
        /\ r.op = "putUser" /\ r.pc = "done" /\ r.username \in DOMAIN users =>
              /\ users[r.username].itemReviews = P.users[r.username].itemReviews
              /\ users[r.username].reviewCount = P.users[r.username].reviewCount
              /\ users[r.username].averageRating = P.users[r.username].averageRating

\* every review entry names an item and a user that exist
NoDanglingMirror ==
    /\ \A u \in DOMAIN users : \A f \in Range(users[u].itemReviews) :
          f.itemId \in DOMAIN items
    /\ \A i \in DOMAIN items : \A e \in Range(items[i].reviews) :
          e.username \in DOMAIN users

\* C21: when a deletion of an item or of a user, by id or username or of
\* all items or all users, has completed with status 200, no user lists a
\* review of an item that does not exist and no item lists a review by a
\* user who does not exist.
C21_NoDanglingAfterDeletion ==
    /\ req[1].pc = "done"
    /\ req[1].op \in {"deleteItem", "deleteUser", "deleteAllItems", "deleteAllUsers"}
    /\ req[1].resp = 200
    => NoDanglingMirror

\* C22: a DELETE /api/items whose x-admin-key header is absent or is not
\* ADMIN_DELETE_KEY is answered 401 and deletes no item.
C22_DeleteAllItemsNeedsKey ==
    /\ req[1].op = "deleteAllItems"
    /\ req[1].pc = "done"
    /\ KeyRejected(req[1].adminKey)
    => /\ req[1].resp = 401
       /\ items = pre[1].items

\* the request creates or removes a user or an item
ManagesEntities(r) ==
    /\ r.method \in {"POST", "DELETE"}
    /\ \/ r.path \in {ItemsPath, UsersPath}
       \/ Len(r.path) = 3 /\ (StartsWith(r.path, ItemsPath) \/ StartsWith(r.path, UsersPath))

\* C29: a POST or DELETE on /api/users, /api/items, /api/users/[username]
\* or /api/items/[id] without a token is answered 401 by the middleware,
\* one with the token of a user who is no admin is answered 403 by the
\* middleware: neither reaches its handler.
C29_AdminOnlyManagement ==
    LET r == req[1] IN
    r.pc # "idle" /\ ManagesEntities(r) =>
        /\ r.token = NoToken => r.op = "request" /\ r.pc = "done" /\ r.resp = 401
        /\ r.token = "user" => r.op = "request" /\ r.pc = "done" /\ r.resp = 403

====
